---- MODULE Spec2Model ----
(***************************************************************************)
(* Task-orchestration engine of the Telegram bridge: the per-project work  *)
(* queue (queue_manager.py), the approval handshake (approval_handler.py), *)
(* the task processor and the scheduler callback (telegram_bot.py) and the *)
(* scheduler tick loop (scheduled_task_manager.py).                        *)
(*                                                                         *)
(* Everything runs on one asyncio event loop: a step of the model is the   *)
(* code one coroutine runs between two suspension points (await of the     *)
(* Executor, of a Telegram call, of an event, a queue or a sleep).         *)
(***************************************************************************)
EXTENDS Integers, Sequences, FiniteSets, TLC

None == "none"

\* config.projects: project key -> approval_mode (config.py:17-20)
Projects == {"web", "api"}

ApprovalMode == [p \in Projects |-> IF p = "web" THEN "ask-all" ELSE "safe"]

\* chats the authorized user writes from; a prompt message is (chat, message id)
Chats == {"c1", "c2"}

\* what the Executor can report
SessionIds == {"s1", "s2"}

Tools == {"Write"}

\* the tools of a task that asks for more than one
GrantTools == {"Write", "Bash"}

\* ---- bounds of the model
MaxTasks == 3

MaxWorkers == 3

MaxMsgs == 2

MaxCallbacks == 2

MaxApprovalTasks == 1

\* prompt messages beside the work queues
MaxPrompts == 1

\* scheduled tasks and ticks of the scheduler
MaxScheduled == 1

MaxTicks == 2

\* tasks in the work queue beside the scheduler
MaxBeside == 1

\* tasks of the project whose session handle is followed
MaxSessionTasks == 2

\* ticks that follow one another over a recurring task
MaxAdvanceTicks == 2

\* tasks in the work queues beside the /skip command
MaxSkipTasks == 2

\* command handlers that run beside the queues or the scheduler
MaxCalls == 2

\* scheduled tasks of the scheduler on its own, and restarts of the process
MaxSchedTasks == 2

MaxRestarts == 1

\* the recurrence arithmetic: days the clock is read on, ticks
CalcDays == 7

MaxCalcTicks == 1

\* granularity of the timers' clock
TimeStep == 150

\* ---- program constants
\* asyncio.wait_for(approval.event.wait(), timeout=300)
ApprovalTimeout == 300

Keys == Chats \X (1..MaxMsgs)

Min(a, b) == IF a <= b THEN a ELSE b

VARIABLES
    \* QueueManager
    queues,        \* _queues: project -> sequence of QueuedTask
    processors,    \* _processors: project -> worker id (0: no entry)
    current_tasks, \* _current_tasks: project -> task id, 0 for None or no entry
    skip_events,   \* _skip_events: project -> "absent" | "clear" | "set"
    worker,        \* the _process_queue coroutines ever created, by worker id
    \* TelegramBot._process_task, one frame per worker
    proc,
    \* SessionManager
    sessions,      \* _sessions: project -> session id or None
    \* ApprovalHandler
    pending,       \* keys of _pending
    approval,      \* the PendingApproval objects, by key
    elapsed,       \* time each request_approval has been waiting
    result,        \* what request_approval returned, by key
    callbacks,     \* the handle_callback invocations so far
    msg_id,        \* chat -> id of the last prompt message sent to it
    \* ScheduledTaskManager
    task_objs,     \* the ScheduledTask objects ever created, by task id
    task_ids,      \* keys of _tasks
    tasks_file,    \* scheduled_tasks.json: the records last saved
    sched,         \* the _run_scheduler coroutine and the callback it awaits;
                   \* ticks counts its ticks, restarts the process's restarts
    fired,         \* history: the invocations of the scheduler's callback
    tick_due,      \* history: the tasks of _tasks that were enabled and due
                   \* when the current tick read the clock
    \* history
    next_task,     \* ids handed to QueuedTask so far
    enqueued,      \* project -> task ids in enqueue order
    log,           \* project -> <<event, task id>> in the order they happened
    stored,        \* key -> decisions stored in its PendingApproval, in order,
                   \* each with the time the request had waited
    ret_elapsed,   \* key -> elapsed time at which request_approval returned
    \* Config and the command handlers
    projects,      \* keys of config.projects
    returned       \* history: the calls made by the command handlers, in order,
                   \* each <<operation, argument, value returned, task that was
                   \* marked in flight for the argument (0 when none or not a
                   \* project)>>

qvars == <<queues, processors, current_tasks, skip_events, worker>>

avars == <<pending, approval, elapsed, result, callbacks, msg_id>>

svars == <<task_objs, task_ids, tasks_file, sched, fired, tick_due>>

cvars == <<projects, returned>>

hvars == <<next_task, enqueued, log, stored, ret_elapsed, cvars>>

vars == <<queues, processors, current_tasks, skip_events, worker, proc, sessions,
          pending, approval, elapsed, result, callbacks, msg_id,
          task_objs, task_ids, tasks_file, sched, fired, tick_due,
          next_task, enqueued, log, stored, ret_elapsed, projects, returned>>

\* ------------------------------------------------------------------ Init

NoFrame == [pc |-> "idle", session_id |-> None, allowed_tools |-> {},
            tool_name |-> None, key |-> None, success |-> TRUE,
            result_session_id |-> None, denial |-> None]

Init ==
    /\ queues = [p \in Projects |-> <<>>]
    /\ processors = [p \in Projects |-> 0]
    /\ current_tasks = [p \in Projects |-> 0]
    /\ skip_events = [p \in Projects |-> "absent"]
    /\ worker = <<>>
    /\ proc = <<>>
    /\ sessions = [p \in Projects |-> None]
    /\ pending = {}
    /\ approval = [k \in Keys |-> [approved |-> None, event |-> FALSE]]
    /\ elapsed = [k \in Keys |-> 0]
    /\ result = [k \in Keys |-> None]
    /\ callbacks = <<>>
    /\ msg_id = [c \in Chats |-> 0]
    /\ task_objs = <<>>
    /\ task_ids = {}
    /\ tasks_file = [tasks |-> <<>>, whole |-> TRUE]
    /\ sched = [pc |-> "starting", now |-> 0, ticks |-> 0, restarts |-> 0,
                todo |-> <<>>, session_id |-> None]
    /\ fired = <<>>
    /\ tick_due = {}
    /\ next_task = 0
    /\ enqueued = [p \in Projects |-> <<>>]
    /\ log = [p \in Projects |-> <<>>]
    /\ stored = [k \in Keys |-> <<>>]
    /\ ret_elapsed = [k \in Keys |-> 0]
    /\ projects = Projects
    /\ returned = <<>>

\* ------------------------------------------------------- QueueManager

NoTask == [id |-> 0, chat_id |-> None]

ProjectOf(w) == worker[w].project

\* an enqueue that starts a worker every time
NeedsProcessorAlways(p) == TRUE

\* queue_manager.py:54: the project has no worker, or its worker has finished
NeedsProcessor(p) == processors[p] = 0 \/ worker[processors[p]].pc = "done"

\* queue_manager.py:46-49, 60: the position enqueue returns, computed before
\* the task is put: the queue's size, plus one when the project's marker holds
\* a task
EnqueuePosition(p) == Len(queues[p]) + IF current_tasks[p] # 0 THEN 1 ELSE 0

\* queue_manager.py:37-60
Enqueue(p, ch) ==
    /\ NeedsProcessor(p) => Len(worker) < MaxWorkers
    /\ next_task' = next_task + 1
    /\ queues' = [queues EXCEPT ![p] = Append(@, [id |-> next_task + 1, chat_id |-> ch])]
    /\ enqueued' = [enqueued EXCEPT ![p] = Append(@, next_task + 1)]
    /\ IF NeedsProcessor(p)
       THEN /\ worker' = Append(worker, [project |-> p, pc |-> "waiting",
                                         task |-> NoTask])
            /\ proc' = Append(proc, NoFrame)
            /\ processors' = [processors EXCEPT ![p] = Len(worker) + 1]
            /\ skip_events' = [skip_events EXCEPT ![p] = "clear"]
       ELSE UNCHANGED <<worker, proc, processors, skip_events>>
    /\ UNCHANGED <<svars, current_tasks, sessions, avars, log, stored, ret_elapsed, cvars>>

\* queue_manager.py:101-105
GetQueueSize(p) == Len(queues[p])

\* queue_manager.py:107-109 (0 stands for None)
GetCurrentTask(p) == current_tasks[p]

\* the order in which config.projects is iterated (config.py:40, the order of
\* the projects in the configuration file)
ProjectOrder == <<"web", "api">>

\* a skip_current that reports a task whenever the project has a skip event
SkipCurrentValueIfEvent(p) == skip_events[p] # "absent"

\* queue_manager.py:90-95: the value skip_current returns
SkipCurrentValue(p) == skip_events[p] # "absent" /\ current_tasks[p] # 0

\* telegram_bot.py:235-239: the projects /skip calls skip_current for, up to
\* and including the first one that returns true
SkipCalls ==
    LET order == SelectSeq(ProjectOrder, LAMBDA p : p \in projects)
        hits == {i \in DOMAIN order : SkipCurrentValue(order[i])}
    IN IF hits = {} THEN order
       ELSE SubSeq(order, 1, CHOOSE i \in hits : \A j \in hits : i <= j)

\* telegram_bot.py:224-242 and queue_manager.py:90-95: /skip; each
\* skip_current call sets the project's event if the project has one
CmdSkip ==
    LET called == {SkipCalls[i] : i \in DOMAIN SkipCalls}
    IN /\ skip_events' = [p \in Projects |->
                             IF p \in called /\ skip_events[p] # "absent"
                             THEN "set" ELSE skip_events[p]]
       /\ returned' = returned \o
                          [i \in DOMAIN SkipCalls |->
                              <<"skip_current", SkipCalls[i], SkipCurrentValue(SkipCalls[i]),
                                current_tasks[SkipCalls[i]]>>]
       /\ UNCHANGED <<svars, queues, processors, current_tasks, worker, proc, sessions,
                      avars, next_task, enqueued, log, stored, ret_elapsed, projects>>

\* a queue that hands out its newest item
QueueGetNewest(q) == [item |-> q[Len(q)], rest |-> SubSeq(q, 1, Len(q) - 1)]

\* queue_manager.py:34, 73: asyncio.Queue.get() takes the oldest item
QueueGet(q) == [item |-> Head(q), rest |-> Tail(q)]

\* a worker that takes a task only while no other worker holds one
ProcessQueueGetOneAtATime(w) ==
    /\ worker[w].pc = "waiting"
    /\ queues[ProjectOf(w)] # <<>>
    /\ \A v \in DOMAIN worker : worker[v].pc \notin {"taken", "running"}
    /\ worker' = [worker EXCEPT ![w].pc = "taken",
                                ![w].task = QueueGet(queues[ProjectOf(w)]).item]
    /\ queues' = [queues EXCEPT ![ProjectOf(w)] = QueueGet(@).rest]
    /\ UNCHANGED <<svars, processors, current_tasks, skip_events, proc, sessions, avars, hvars>>

\* queue_manager.py:73: queue.get() hands the head of the queue to the worker
ProcessQueueGet(w) ==
    /\ worker[w].pc = "waiting"
    /\ queues[ProjectOf(w)] # <<>>
    /\ worker' = [worker EXCEPT ![w].pc = "taken",
                                ![w].task = QueueGet(queues[ProjectOf(w)]).item]
    /\ queues' = [queues EXCEPT ![ProjectOf(w)] = QueueGet(@).rest]
    /\ UNCHANGED <<svars, processors, current_tasks, skip_events, proc, sessions, avars, hvars>>

\* a worker that stops at its time-out whatever the queue holds
ProcessQueueTimeoutStops(w) ==
    /\ worker[w].pc = "waiting"
    /\ worker' = [worker EXCEPT ![w].pc = "done"]
    /\ UNCHANGED <<svars, queues, processors, current_tasks, skip_events, proc, sessions,
                   avars, hvars>>

\* queue_manager.py:73, 84-88: the worker has waited 60 s for a task
\* (TimeoutError); it stops only on an empty queue, else it waits again
ProcessQueueTimeout(w) ==
    /\ worker[w].pc = "waiting"
    /\ worker' = [worker EXCEPT ![w].pc = IF queues[ProjectOf(w)] = <<>>
                                          THEN "done" ELSE "waiting"]
    /\ UNCHANGED <<svars, queues, processors, current_tasks, skip_events, proc, sessions,
                   avars, hvars>>

\* a worker that leaves the marker on the task it has finished
ProcessQueueFinallyKeeps(w) ==
    /\ UNCHANGED current_tasks
    /\ worker' = [worker EXCEPT ![w].pc = "waiting", ![w].task = NoTask]

\* queue_manager.py:80-82 and back to 70-73: the marker is cleared, the worker
\* waits for the next task
ProcessQueueFinally(w) ==
    /\ current_tasks' = [current_tasks EXCEPT ![ProjectOf(w)] = 0]
    /\ worker' = [worker EXCEPT ![w].pc = "waiting", ![w].task = NoTask]

\* a worker that lets the callback's error through: finally runs, the loop ends
ProcessQueueExceptEscapes(w) ==
    /\ current_tasks' = [current_tasks EXCEPT ![ProjectOf(w)] = 0]
    /\ worker' = [worker EXCEPT ![w].pc = "done", ![w].task = NoTask]

\* queue_manager.py:78-82: the callback's error is caught and logged
ProcessQueueExcept(w) == ProcessQueueFinally(w)

\* the callback of worker w ends with `how`
CallbackEnds(w, how) ==
    /\ log' = [log EXCEPT ![ProjectOf(w)] = Append(@, <<how, worker[w].task.id>>)]
    /\ IF how = "raised" THEN ProcessQueueExcept(w) ELSE ProcessQueueFinally(w)

\* ------------------------------------------- TelegramBot._process_task

\* telegram_bot.py:295-296 and config.py:149-157: /removeproject takes the
\* project out of config.projects and forgets its session
RemoveProject(p) ==
    /\ projects' = projects \ {p}
    /\ sessions' = IF p \in projects THEN [sessions EXCEPT ![p] = None] ELSE sessions
    /\ UNCHANGED <<svars, qvars, proc, avars, next_task, enqueued, log, stored,
                   ret_elapsed, returned>>

\* queue_manager.py:74-77 and telegram_bot.py:721-746: the task is marked in
\* flight, the callback reads the session handle and invokes the Executor.
\* For a project that has left config.projects the lookup of line 724 raises
\* KeyError, which the worker catches and logs (queue_manager.py:78-82).
ProcessQueueRun(w) ==
    /\ worker[w].pc = "taken"
    /\ IF ProjectOf(w) \in projects
       THEN /\ worker' = [worker EXCEPT ![w].pc = "running"]
            /\ current_tasks' = [current_tasks EXCEPT ![ProjectOf(w)] = worker[w].task.id]
            /\ proc' = [proc EXCEPT ![w] = [NoFrame EXCEPT !.pc = "executing",
                                                !.session_id = sessions[ProjectOf(w)]]]
            /\ log' = [log EXCEPT ![ProjectOf(w)] = Append(@, <<"start", worker[w].task.id>>)]
       ELSE /\ ProcessQueueExcept(w)
            /\ log' = [log EXCEPT ![ProjectOf(w)] =
                          @ \o << <<"start", worker[w].task.id>>,
                                  <<"raised", worker[w].task.id>> >>]
            /\ UNCHANGED proc
    /\ UNCHANGED <<svars, queues, processors, skip_events, sessions, avars,
                   next_task, enqueued, stored, ret_elapsed, cvars>>

\* a store that keeps the first handle of a project
SetSessionIdIfAbsent(s, p, sid) == IF s[p] = None THEN [s EXCEPT ![p] = sid] ELSE s

\* session_manager.py:38-44
SetSessionId(s, p, sid) == [s EXCEPT ![p] = sid]

\* a processor that asks under every policy
NeedsApprovalAnyMode(p, denial) == denial # None

\* telegram_bot.py:753: the result carries a permission denial and the
\* project's policy is ask-all
NeedsApproval(p, denial) == denial # None /\ ApprovalMode[p] = "ask-all"

\* telegram_bot.py:748-766, 789-804: the Executor returns
ProcessTaskExecuted(w, sid, denial, ok) ==
    /\ worker[w].pc = "running"
    /\ proc[w].pc = "executing"
    /\ sessions' = IF sid # None THEN SetSessionId(sessions, ProjectOf(w), sid) ELSE sessions
    /\ proc' = IF NeedsApproval(ProjectOf(w), denial)
               THEN [proc EXCEPT ![w].pc = "prompting", ![w].tool_name = denial,
                                 ![w].success = ok, ![w].result_session_id = sid,
                                 ![w].denial = denial]
               ELSE [proc EXCEPT ![w].pc = "reporting", ![w].success = ok,
                                 ![w].result_session_id = sid, ![w].denial = denial]
    /\ UNCHANGED <<svars, qvars, avars, hvars>>

\* approval_handler.py:49-87 as called at telegram_bot.py:762-775: the prompt
\* message is sent and request_approval registers the PendingApproval
RequestApproval(w) ==
    LET ch == worker[w].task.chat_id
        k == <<ch, msg_id[ch] + 1>>
    IN /\ worker[w].pc = "running"
       /\ proc[w].pc = "prompting"
       /\ msg_id[ch] < MaxMsgs
       /\ msg_id' = [msg_id EXCEPT ![ch] = @ + 1]
       /\ pending' = pending \cup {k}
       /\ approval' = [approval EXCEPT ![k] = [approved |-> None, event |-> FALSE]]
       /\ elapsed' = [elapsed EXCEPT ![k] = 0]
       /\ proc' = [proc EXCEPT ![w].pc = "awaiting", ![w].key = k]
       /\ UNCHANGED <<svars, qvars, sessions, result, callbacks, hvars>>

\* the 300 s of wait_for(approval.event.wait()) pass
ApprovalClock(k) ==
    /\ k \in pending
    /\ elapsed[k] < ApprovalTimeout
    /\ elapsed' = [elapsed EXCEPT ![k] = Min(@ + TimeStep, ApprovalTimeout)]
    /\ UNCHANGED <<svars, qvars, proc, sessions, pending, approval, result, callbacks,
                   msg_id, hvars>>

\* approval_handler.py:74: the value returned once the event is set
ApprovedValue(k) == approval[k].approved = "yes"

\* a wait that gives up at once
TimedOutAtOnce(k) == elapsed[k] >= 0

\* a wait without a timeout
TimedOutNever(k) == FALSE

\* approval_handler.py:73: wait_for(..., timeout=300) has run out
TimedOut(k) == elapsed[k] >= ApprovalTimeout

\* a return that leaves the entry in the map
PendingKept(k) == pending

\* approval_handler.py:79: finally: self._pending.pop(key, None)
PendingAfterReturn(k) == pending \ {k}

\* an allow-list that holds the last approved tool only
AllowOnly(allowed_tools, tool_name) == {tool_name}

\* telegram_bot.py:779: allowed_tools.append(tool_name)
Allow(allowed_tools, tool_name) == allowed_tools \cup {tool_name}

\* approval_handler.py:71-79 and telegram_bot.py:777-787: request_approval
\* returns (by = "event": the event was set; by = "timeout": TimeoutError)
RequestApprovalReturns(w, by) ==
    LET k == proc[w].key
        approved == IF by = "event" THEN ApprovedValue(k) ELSE FALSE
    IN /\ worker[w].pc = "running"
       /\ proc[w].pc = "awaiting"
       /\ \/ by = "event" /\ approval[k].event
          \/ by = "timeout" /\ TimedOut(k)
       /\ pending' = PendingAfterReturn(k)
       /\ result' = [result EXCEPT ![k] = IF approved THEN "true" ELSE "false"]
       /\ ret_elapsed' = [ret_elapsed EXCEPT ![k] = elapsed[k]]
       /\ proc' = IF approved
                  THEN [proc EXCEPT ![w].pc = "executing",
                                    ![w].allowed_tools = Allow(@, proc[w].tool_name)]
                  ELSE [proc EXCEPT ![w].pc = "denying"]
       /\ UNCHANGED <<svars, qvars, sessions, approval, elapsed, callbacks, msg_id,
                      next_task, enqueued, log, stored, cvars>>

\* a processor that invokes the Executor again after a denial
ProcessTaskRetries(w) ==
    /\ worker[w].pc = "running"
    /\ proc[w].pc = "denying"
    /\ proc' = [proc EXCEPT ![w].pc = "executing"]
    /\ UNCHANGED <<svars, qvars, sessions, avars, hvars>>

\* telegram_bot.py:783-787: the denial message is sent, the callback returns
ProcessTaskDenied(w) ==
    /\ worker[w].pc = "running"
    /\ proc[w].pc = "denying"
    /\ CallbackEnds(w, "denied")
    /\ proc' = [proc EXCEPT ![w] = NoFrame]
    /\ UNCHANGED <<svars, queues, processors, skip_events, sessions, avars,
                   next_task, enqueued, stored, ret_elapsed, cvars>>

\* telegram_bot.py:792-813: the result message is sent, the callback returns
ProcessTaskReported(w) ==
    /\ worker[w].pc = "running"
    /\ proc[w].pc = "reporting"
    /\ CallbackEnds(w, IF proc[w].success THEN "done" ELSE "failed")
    /\ proc' = [proc EXCEPT ![w] = NoFrame]
    /\ UNCHANGED <<svars, queues, processors, skip_events, sessions, avars,
                   next_task, enqueued, stored, ret_elapsed, cvars>>

\* telegram_bot.py:762, 783, 801: bot.send_message raises (a Telegram error);
\* the error leaves _process_task
ProcessTaskRaises(w) ==
    /\ worker[w].pc = "running"
    /\ proc[w].pc \in {"prompting", "denying", "reporting"}
    /\ CallbackEnds(w, "raised")
    /\ proc' = [proc EXCEPT ![w] = NoFrame]
    /\ UNCHANGED <<svars, queues, processors, skip_events, sessions, avars,
                   next_task, enqueued, stored, ret_elapsed, cvars>>

\* ------------------------------------------ ApprovalHandler.handle_callback

\* telegram_bot.py:54-58, 76: the Application is built without
\* concurrent_updates, so one update's handler ends before the next starts
NoCallbackRunning == \A c \in DOMAIN callbacks : callbacks[c].pc = "done"

\* approval_handler.py:81-91: a button of prompt message k is pressed; the
\* handler awaits query.answer()
HandleCallbackStart(k, d) ==
    /\ Len(callbacks) < MaxCallbacks
    /\ NoCallbackRunning
    /\ k[2] <= msg_id[k[1]]
    /\ callbacks' = Append(callbacks, [pc |-> "answering", key |-> k, data |-> d,
                                       outcome |-> None])
    /\ UNCHANGED <<svars, qvars, proc, sessions, pending, approval, elapsed, result,
                   msg_id, hvars>>

\* a handler that resolves the request it was sent for, pending or not
HandleCallbackResolvesStale(c) ==
    /\ callbacks' = [callbacks EXCEPT ![c].pc = "done", ![c].outcome = "signalled"]
    /\ approval' = [approval EXCEPT ![callbacks[c].key] =
                        [approved |-> IF callbacks[c].data = "approve" THEN "yes" ELSE "no",
                         event |-> TRUE]]
    /\ UNCHANGED stored

\* approval_handler.py:100-102: no entry under the key
HandleCallbackExpired(c) ==
    /\ callbacks' = [callbacks EXCEPT ![c].pc = "done", ![c].outcome = "expired"]
    /\ UNCHANGED <<approval, stored>>

\* approval_handler.py:104-116: the decision is stored in the entry
HandleCallbackDecide(c) ==
    LET k == callbacks[c].key
        v == IF callbacks[c].data = "approve" THEN "yes" ELSE "no"
    IN /\ approval' = [approval EXCEPT ![k].approved = v]
       /\ stored' = [stored EXCEPT ![k] = Append(@, [value |-> v, at |-> elapsed[k]])]
       /\ callbacks' = [callbacks EXCEPT ![c].pc = "editing"]

\* approval_handler.py:97-116: query.answer() is back; look the entry up
HandleCallbackLookup(c) ==
    /\ callbacks[c].pc = "answering"
    /\ IF callbacks[c].key \in pending
       THEN HandleCallbackDecide(c)
       ELSE HandleCallbackExpired(c)
    /\ UNCHANGED <<svars, qvars, proc, sessions, pending, elapsed, result, msg_id,
                   next_task, enqueued, log, ret_elapsed, cvars>>

\* approval_handler.py:113-119: the prompt message is edited, the event is set
HandleCallbackSignal(c) ==
    /\ callbacks[c].pc = "editing"
    /\ approval' = [approval EXCEPT ![callbacks[c].key].event = TRUE]
    /\ callbacks' = [callbacks EXCEPT ![c].pc = "done", ![c].outcome = "signalled"]
    /\ UNCHANGED <<svars, qvars, proc, sessions, pending, elapsed, result, msg_id, hvars>>

\* approval_handler.py:113-116: query.edit_message_text raises (a Telegram
\* error); the handler ends before line 119
HandleCallbackEditRaises(c) ==
    /\ callbacks[c].pc = "editing"
    /\ callbacks' = [callbacks EXCEPT ![c].pc = "done", ![c].outcome = "edit_raised"]
    /\ UNCHANGED <<svars, qvars, proc, sessions, pending, approval, elapsed, result,
                   msg_id, hvars>>

\* ---------------------------------------------- ScheduledTaskManager

\* datetimes are seconds since 00:00:00 of a Monday
\* timedelta(days=1)
SecondsPerDay == 86400

\* check_interval: int = 30
CheckInterval == 30

\* datetime.weekday(): 0 = Monday
Weekday(t) == (t \div SecondsPerDay) % 7

\* from_time.replace(hour=hour, minute=minute, second=0, microsecond=0)
ReplaceTime(t, hour, minute) ==
    (t \div SecondsPerDay) * SecondsPerDay + hour * 3600 + minute * 60

\* An Optional[datetime] or Optional[int] is <<>> (None) or <<value>>; a
\* time_of_day is <<hour, minute>>, and <<>> where the text is empty.

\* a recurrence that re-arms every kind of task for the next day
CalculateNextRunRearms(task, from_time) == <<from_time + SecondsPerDay>>

\* a recurrence that always rolls to the following day
CalculateNextRunTomorrow(task, from_time) ==
    IF task.schedule_type = "once" THEN <<>>
    ELSE <<ReplaceTime(from_time, task.time_of_day[1], task.time_of_day[2])
           + SecondsPerDay>>

\* a recurrence that never rolls over: the time_of_day of from_time's day
CalculateNextRunToday(task, from_time) ==
    IF task.schedule_type = "once" THEN <<>>
    ELSE <<ReplaceTime(from_time, task.time_of_day[1], task.time_of_day[2])>>

\* scheduled_task_manager.py:219-268
CalculateNextRun(task, from_time) ==
    IF task.schedule_type = "once" THEN <<>>
    ELSE LET hour == task.time_of_day[1]
             minute == task.time_of_day[2]
         IN IF task.schedule_type = "daily"
            THEN LET next_run == ReplaceTime(from_time, hour, minute)
                 IN IF next_run <= from_time THEN <<next_run + SecondsPerDay>>
                                             ELSE <<next_run>>
            ELSE IF task.schedule_type = "weekly"
            THEN LET target_day == IF task.day_of_week = <<>> THEN 0
                                   ELSE task.day_of_week[1]
                     d == target_day - Weekday(from_time)
                     days_ahead == IF d <= 0 THEN d + 7 ELSE d
                 IN <<ReplaceTime(from_time, hour, minute) + days_ahead * SecondsPerDay>>
            ELSE <<>>

\* the ids of a set in ascending order: the order of the dict _tasks, whose
\* keys are inserted as they are created
RECURSIVE Ascending(_)
Ascending(S) ==
    IF S = {} THEN <<>>
    ELSE LET m == CHOOSE x \in S : \A y \in S : x <= y
         IN <<m>> \o Ascending(S \ {m})

\* scheduled_tasks.json is [tasks |-> the records, whole |-> the text is one
\* complete JSON document]; the file that does not exist yet reads as no record

\* a save that writes nothing of _tasks
SaveNothing(objs, ids) == [tasks |-> <<>>, whole |-> TRUE]

\* scheduled_task_manager.py:72-78: the records of _tasks, written to the file
Save(objs, ids) ==
    [tasks |-> [i \in 1..Cardinality(ids) |-> objs[Ascending(ids)[i]]], whole |-> TRUE]

\* scheduled_task_manager.py:61-70: the records read at construction; a text
\* that is not complete JSON raises JSONDecodeError, which is logged
Load(file) == IF file.whole THEN file.tasks ELSE <<>>

\* scheduled_task_manager.py:80-120
CreateTask(chat_id, project_name, schedule_type, run_time, time_of_day, day_of_week) ==
    LET task_id == Len(task_objs) + 1
        task == [task_id |-> task_id, chat_id |-> chat_id, project_name |-> project_name,
                 schedule_type |-> schedule_type, next_run |-> run_time,
                 enabled |-> TRUE, time_of_day |-> time_of_day,
                 day_of_week |-> day_of_week, last_run |-> <<>>]
    IN /\ task_objs' = Append(task_objs, task)
       /\ task_ids' = task_ids \cup {task_id}
       /\ tasks_file' = Save(task_objs', task_ids')
       /\ UNCHANGED <<qvars, proc, sessions, avars, sched, fired, tick_due, hvars>>

\* a /schedule that passes any kind on
ScheduleAcceptsAny(schedule_type) == TRUE

\* telegram_bot.py:361-366: the kinds /schedule accepts
ScheduleAccepted(schedule_type) == schedule_type \in {"once", "daily", "weekly"}

\* telegram_bot.py:338-447: /schedule with well-formed times; a kind that is
\* not accepted or a project that is not configured is answered with an error
\* message and create_task (scheduled_task_manager.py:80-120) is not called.
\* The id is the first 8 hex digits of a uuid4, taken here as an id no task
\* has had.
CmdSchedule(chat_id, project_name, schedule_type, run_time, time_of_day, day_of_week) ==
    LET task_id == Len(task_objs) + 1
        task == [task_id |-> task_id, chat_id |-> chat_id, project_name |-> project_name,
                 schedule_type |-> schedule_type, next_run |-> run_time,
                 enabled |-> TRUE, time_of_day |-> time_of_day,
                 day_of_week |-> day_of_week, last_run |-> <<>>]
    IN /\ IF ScheduleAccepted(schedule_type) /\ project_name \in projects
          THEN /\ task_objs' = Append(task_objs, task)
               /\ task_ids' = task_ids \cup {task_id}
               /\ tasks_file' = Save(task_objs', task_ids')
               /\ returned' = Append(returned, <<"create_task", schedule_type, task_id, 0>>)
          ELSE /\ returned' = Append(returned, <<"create_task", schedule_type, 0, 0>>)
               /\ UNCHANGED <<task_objs, task_ids, tasks_file>>
       /\ UNCHANGED <<qvars, proc, sessions, avars, sched, fired, tick_due,
                      next_task, enqueued, log, stored, ret_elapsed, projects>>

\* A text argument of /schedule is modelled by what int() makes of it: <<n>>
\* where int() reads the number n, <<>> where int() raises ValueError; a time
\* argument is the sequence of its parts between colons.

\* telegram_bot.py:379, 395: hour, minute = map(int, time_of_day.split(":"));
\* <<>> where the unpacking or an int() raises ValueError
ParseTimeOfDay(parts) ==
    IF Len(parts) = 2 /\ parts[1] # <<>> /\ parts[2] # <<>>
    THEN << <<parts[1][1], parts[2][1]>> >>
    ELSE <<>>

\* a datetime.replace that takes any hour and minute
ReplaceTakesAny(hour, minute) == TRUE

\* telegram_bot.py:380-382, 398-400: datetime.replace raises ValueError for an
\* hour outside 0..23 or a minute outside 0..59
ReplaceTakes(hour, minute) == hour \in 0..23 /\ minute \in 0..59

\* telegram_bot.py:368-407: the arguments of /schedule daily and /schedule
\* weekly read at `now`: <<>> where a ValueError is raised, else the run_time,
\* time_of_day and day_of_week handed to create_task. The task keeps the text
\* of the time; the model keeps the hour and minute that
\* scheduled_task_manager.py:237 reads from it with the same expression.
ScheduleArgs(schedule_type, day, time, now) ==
    LET tod == ParseTimeOfDay(time)
    IN IF schedule_type = "daily"
       THEN IF tod = <<>> \/ ~ReplaceTakes(tod[1][1], tod[1][2]) THEN <<>>
            ELSE LET run_time == ReplaceTime(now, tod[1][1], tod[1][2])
                 IN <<[run_time |-> IF run_time <= now THEN run_time + SecondsPerDay
                                    ELSE run_time,
                       time_of_day |-> tod[1], day_of_week |-> <<>>]>>
       ELSE IF day = <<>> \/ day[1] \notin 0..6 THEN <<>>
            ELSE IF tod = <<>> \/ ~ReplaceTakes(tod[1][1], tod[1][2]) THEN <<>>
            ELSE LET run_time == ReplaceTime(now, tod[1][1], tod[1][2])
                     d == day[1] - Weekday(run_time)
                     days_ahead == IF d <= 0 THEN d + 7 ELSE d
                 IN <<[run_time |-> run_time + days_ahead * SecondsPerDay,
                       time_of_day |-> tod[1], day_of_week |-> day]>>

\* telegram_bot.py:338-447: /schedule daily and /schedule weekly with the
\* text of their arguments; a ValueError is answered with 'Error parsing
\* schedule' (446-447) and create_task is not called
CmdScheduleText(chat_id, project_name, schedule_type, day, time) ==
    LET args == ScheduleArgs(schedule_type, day, time, sched.now)
    IN IF args = <<>>
       THEN /\ returned' = Append(returned, <<"create_task", schedule_type, 0, 0>>)
            /\ UNCHANGED <<svars, qvars, proc, sessions, avars,
                           next_task, enqueued, log, stored, ret_elapsed, projects>>
       ELSE CmdSchedule(chat_id, project_name, schedule_type, args[1].run_time,
                        args[1].time_of_day, args[1].day_of_week)

\* scheduled_task_manager.py:122-136
DeleteTask(task_id) ==
    /\ IF task_id \in task_ids
       THEN /\ task_ids' = task_ids \ {task_id}
            /\ tasks_file' = Save(task_objs, task_ids')
       ELSE UNCHANGED <<task_ids, tasks_file>>
    /\ UNCHANGED <<qvars, proc, sessions, avars, task_objs, sched, fired, tick_due, hvars>>

\* a delete_task that reports success for any id
DeleteTaskValueTrue(task_id) == TRUE

\* scheduled_task_manager.py:131, 135-136: the value delete_task returns
DeleteTaskValue(task_id) == task_id \in task_ids

\* telegram_bot.py:480-498 and scheduled_task_manager.py:122-136: /deletetask
CmdDeleteTask(task_id) ==
    /\ IF DeleteTaskValue(task_id)
       THEN /\ task_ids' = task_ids \ {task_id}
            /\ tasks_file' = Save(task_objs, task_ids')
       ELSE UNCHANGED <<task_ids, tasks_file>>
    /\ returned' = Append(returned, <<"delete_task", task_id, DeleteTaskValue(task_id), 0>>)
    /\ UNCHANGED <<qvars, proc, sessions, avars, task_objs, sched, fired, tick_due,
                   next_task, enqueued, log, stored, ret_elapsed, projects>>

\* a loop that does not look at next_run
DueIfEnabled(task, now) == task.enabled

\* scheduled_task_manager.py:184-189: the task is enabled and due
Due(task, now) == task.enabled /\ now >= task.next_run

\* scheduled_task_manager.py:183-189: the for loop passes the tasks that are
\* disabled or not due
RECURSIVE SkipNotDue(_, _, _)
SkipNotDue(objs, todo, now) ==
    IF todo = <<>> THEN <<>>
    ELSE IF Due(objs[Head(todo)], now) THEN todo
    ELSE SkipNotDue(objs, Tail(todo), now)

\* scheduled_task_manager.py:189-197, 211 and telegram_bot.py:554-567: the
\* loop goes on with `todo`: it awaits the callback of the first due task
\* (which sends its notification), or sleeps
RunSchedulerGoesOn(objs, todo, now, ticks) ==
    LET rest == SkipNotDue(objs, todo, now)
    IN sched' = [pc |-> IF rest = <<>> THEN "sleeping" ELSE "notifying",
                 now |-> now, ticks |-> ticks, restarts |-> sched.restarts,
                 todo |-> rest, session_id |-> None]

\* the callback is invoked for the task the loop has stopped at
Fire(f, s) ==
    IF s.pc = "notifying"
    THEN Append(f, [tick |-> s.ticks, run |-> s.restarts, task_id |-> Head(s.todo),
                    how |-> "running"])
    ELSE f

\* the invocation in progress has ended with `how`
Ended(f, how) == [f EXCEPT ![Len(f)].how = how]

\* scheduled_task_manager.py:179-183: a tick reads the clock and walks a copy
\* of the task list
RunSchedulerTick(now) ==
    /\ sched.pc \in {"starting", "sleeping"}
    /\ IF sched.pc = "starting" THEN now >= sched.now
                                ELSE now >= sched.now + CheckInterval
    /\ RunSchedulerGoesOn(task_objs, Ascending(task_ids), now, sched.ticks + 1)
    /\ fired' = Fire(fired, sched')
    /\ tick_due' = {i \in task_ids : task_objs[i].enabled /\ task_objs[i].next_run <= now}
    /\ UNCHANGED <<qvars, proc, sessions, avars, task_objs, task_ids, tasks_file, hvars>>

ScheduledTaskOf(s) == task_objs[Head(s.todo)]

\* telegram_bot.py:569-579: the notification is sent; the callback reads the
\* session handle and invokes the Executor
ExecuteScheduledTaskRuns ==
    /\ sched.pc = "notifying"
    /\ sched' = [sched EXCEPT !.pc = "executing",
                              !.session_id = sessions[ScheduledTaskOf(sched).project_name]]
    /\ UNCHANGED <<qvars, proc, sessions, avars, task_objs, task_ids, tasks_file,
                   fired, tick_due, hvars>>

\* telegram_bot.py:581-596: the Executor returns; the handle is saved and the
\* result message sent
ExecuteScheduledTaskExecuted(sid) ==
    /\ sched.pc = "executing"
    /\ sessions' = IF sid # None
                   THEN [sessions EXCEPT ![ScheduledTaskOf(sched).project_name] = sid]
                   ELSE sessions
    /\ sched' = [sched EXCEPT !.pc = "reporting"]
    /\ UNCHANGED <<qvars, proc, avars, task_objs, task_ids, tasks_file, fired, tick_due,
                   hvars>>

\* a loop that gives the tick up when a callback raises
AfterCallbackAbort(todo, how) == IF how = "raised" THEN <<>> ELSE Tail(todo)

\* scheduled_task_manager.py:193-197, 183: the error of a callback is caught
\* and logged; the for loop goes on with the next task of its list
AfterCallback(todo, how) == Tail(todo)

\* scheduled_task_manager.py:196-211: the callback has returned, or it has
\* raised (from "notifying": its send_message failed); last_run and next_run
\* are updated and saved, the loop goes on
RunSchedulerUpdates ==
    LET task == ScheduledTaskOf(sched)
        how == IF sched.pc = "notifying" THEN "raised" ELSE "returned"
        new_next == CalculateNextRun(task, sched.now)
        updated == IF new_next # <<>>
                   THEN [task EXCEPT !.last_run = <<sched.now>>, !.next_run = new_next[1]]
                   ELSE [task EXCEPT !.last_run = <<sched.now>>, !.enabled = FALSE]
    IN /\ sched.pc \in {"notifying", "reporting"}
       /\ task_objs' = [task_objs EXCEPT ![task.task_id] = updated]
       /\ tasks_file' = Save(task_objs', task_ids)
       /\ RunSchedulerGoesOn(task_objs', AfterCallback(sched.todo, how), sched.now,
                             sched.ticks)
       /\ fired' = Fire(Ended(fired, how), sched')
       /\ UNCHANGED <<qvars, proc, sessions, avars, task_ids, tick_due, hvars>>

\* scheduled_task_manager.py:77-78: _save raises OSError: open(..., "w")
\* failed and the file is as it was, or the write failed after the file was
\* truncated
SaveFails(file, left) ==
    IF left = "untouched" THEN file ELSE [tasks |-> <<>>, whole |-> FALSE]

\* scheduled_task_manager.py:117-118: create_task has put the task in _tasks
\* and its _save raises; the error leaves create_task
CreateTaskSaveFails(chat_id, project_name, schedule_type, run_time, time_of_day, day_of_week, left) ==
    LET task_id == Len(task_objs) + 1
        task == [task_id |-> task_id, chat_id |-> chat_id, project_name |-> project_name,
                 schedule_type |-> schedule_type, next_run |-> run_time,
                 enabled |-> TRUE, time_of_day |-> time_of_day,
                 day_of_week |-> day_of_week, last_run |-> <<>>]
    IN /\ task_objs' = Append(task_objs, task)
       /\ task_ids' = task_ids \cup {task_id}
       /\ tasks_file' = SaveFails(tasks_file, left)
       /\ UNCHANGED <<qvars, proc, sessions, avars, sched, fired, tick_due, hvars>>

\* scheduled_task_manager.py:131-133: delete_task has deleted the key and its
\* _save raises
DeleteTaskSaveFails(task_id, left) ==
    /\ task_id \in task_ids
    /\ task_ids' = task_ids \ {task_id}
    /\ tasks_file' = SaveFails(tasks_file, left)
    /\ UNCHANGED <<qvars, proc, sessions, avars, task_objs, sched, fired, tick_due, hvars>>

\* scheduled_task_manager.py:205-217: the task object is updated and the _save
\* of line 211 raises; the error leaves the for loop and is caught by the
\* except of the while loop, which logs it and sleeps check_interval
RunSchedulerSaveFails(left) ==
    LET task == ScheduledTaskOf(sched)
        how == IF sched.pc = "notifying" THEN "raised" ELSE "returned"
        new_next == CalculateNextRun(task, sched.now)
        updated == IF new_next # <<>>
                   THEN [task EXCEPT !.last_run = <<sched.now>>, !.next_run = new_next[1]]
                   ELSE [task EXCEPT !.last_run = <<sched.now>>, !.enabled = FALSE]
    IN /\ sched.pc \in {"notifying", "reporting"}
       /\ task_objs' = [task_objs EXCEPT ![task.task_id] = updated]
       /\ tasks_file' = SaveFails(tasks_file, left)
       /\ sched' = [sched EXCEPT !.pc = "sleeping", !.todo = <<>>, !.session_id = None]
       /\ fired' = Ended(fired, how)
       /\ UNCHANGED <<qvars, proc, sessions, avars, task_ids, tick_due, hvars>>

\* the record of scheduled_tasks.json with this task id
FileRecord(recs, task_id) == recs[CHOOSE j \in DOMAIN recs : recs[j].task_id = task_id]

\* scheduled_task_manager.py:42-57 and telegram_bot.py:91-92: the process has
\* stopped and a new one is constructed: nothing in memory survives, _tasks is
\* what _load reads from `file`, and the scheduler starts its loop
Construct(file) ==
    LET recs == Load(file)
    IN /\ task_ids' = {recs[j].task_id : j \in DOMAIN recs}
       /\ task_objs' = [i \in DOMAIN task_objs |->
                           IF i \in task_ids' THEN FileRecord(recs, i) ELSE task_objs[i]]
       /\ sched' = [pc |-> "starting", now |-> sched.now, ticks |-> sched.ticks,
                    restarts |-> sched.restarts + 1, todo |-> <<>>,
                    session_id |-> None]
       /\ fired' = IF sched.pc \in {"notifying", "executing", "reporting"}
                   THEN Ended(fired, "stopped") ELSE fired
       /\ queues' = [p \in Projects |-> <<>>]
       /\ processors' = [p \in Projects |-> 0]
       /\ current_tasks' = [p \in Projects |-> 0]
       /\ skip_events' = [p \in Projects |-> "absent"]
       /\ worker' = <<>>
       /\ proc' = <<>>
       /\ pending' = {}
       /\ callbacks' = <<>>
       /\ UNCHANGED <<sessions, approval, elapsed, result, msg_id, tick_due, hvars>>

\* the process stops between two steps and is started again
Restart ==
    /\ Construct(tasks_file)
    /\ UNCHANGED tasks_file

\* scheduled_task_manager.py:77-78: the process stops inside the _save of a
\* create_task, after open(..., "w") has truncated the file and before
\* json.dump has written the whole text, and is started again
RestartInSave ==
    /\ tasks_file' = [tasks |-> <<>>, whole |-> FALSE]
    /\ Construct(tasks_file')

\* ---------------------------------------------------------------- Next

Workers == DOMAIN worker

Handlers == DOMAIN callbacks

\* The work queues with the task processor; the prompts for approval are left
\* unanswered (the decisions are in NextApproval).
Next ==
    \/ \E p \in Projects : next_task < MaxTasks /\ Enqueue(p, "c1")
    \/ \E w \in Workers : ProcessQueueGet(w)
    \/ \E w \in Workers : ProcessQueueTimeout(w)
    \/ \E w \in Workers : ProcessQueueRun(w)
    \/ \E w \in Workers, t \in Tools \cup {None} : ProcessTaskExecuted(w, None, t, TRUE)
    \/ \E w \in Workers : msg_id["c1"] < MaxPrompts /\ RequestApproval(w)
    \/ \E k \in Keys : ApprovalClock(k)
    \/ \E w \in Workers : RequestApprovalReturns(w, "timeout")
    \/ \E w \in Workers : ProcessTaskDenied(w)
    \/ \E w \in Workers : ProcessTaskReported(w)
    \/ \E w \in Workers : ProcessTaskRaises(w)

Spec == Init /\ [][Next]_vars

\* The approval gate under the tasks of one ask-all project: prompt messages
\* in two chats, several decisions.
NextApproval ==
    \/ \E ch \in Chats : next_task < MaxApprovalTasks /\ Enqueue("web", ch)
    \/ \E w \in Workers : ProcessQueueGet(w)
    \/ \E w \in Workers : ProcessQueueRun(w)
    \/ \E w \in Workers, t \in Tools \cup {None} : ProcessTaskExecuted(w, None, t, TRUE)
    \/ \E w \in Workers : RequestApproval(w)
    \/ \E k \in Keys : ApprovalClock(k)
    \/ \E w \in Workers, by \in {"event", "timeout"} : RequestApprovalReturns(w, by)
    \/ \E w \in Workers : ProcessTaskDenied(w)
    \/ \E w \in Workers : ProcessTaskReported(w)
    \/ \E k \in Keys, d \in {"approve", "deny"} : HandleCallbackStart(k, d)
    \/ \E c \in Handlers : HandleCallbackLookup(c)
    \/ \E c \in Handlers : HandleCallbackSignal(c)
    \/ \E c \in Handlers : HandleCallbackEditRaises(c)

SpecApproval == Init /\ [][NextApproval]_vars

\* The event loop runs its timers and resumes a coroutine whose wait is over:
\* the clock of a pending wait_for advances, and request_approval resumes once
\* its event is set or its timeout has run out. Nothing is assumed of the
\* decisions: a button may never be pressed, a handler may never finish.
ApprovalFairness ==
    /\ WF_vars(\E k \in Keys : ApprovalClock(k))
    /\ WF_vars(\E w \in Workers, by \in {"event", "timeout"} : RequestApprovalReturns(w, by))

\* The approval gate under the tasks of one chat.
NextApprovalLive ==
    \/ next_task < MaxApprovalTasks /\ Enqueue("web", "c1")
    \/ \E w \in Workers : ProcessQueueGet(w)
    \/ \E w \in Workers : ProcessQueueRun(w)
    \/ \E w \in Workers, t \in Tools \cup {None} : ProcessTaskExecuted(w, None, t, TRUE)
    \/ \E w \in Workers : msg_id["c1"] < MaxPrompts /\ RequestApproval(w)
    \/ \E k \in Keys : ApprovalClock(k)
    \/ \E w \in Workers, by \in {"event", "timeout"} : RequestApprovalReturns(w, by)
    \/ \E w \in Workers : ProcessTaskDenied(w)
    \/ \E w \in Workers : ProcessTaskReported(w)
    \/ \E k \in Keys, d \in {"approve", "deny"} : k[1] = "c1" /\ HandleCallbackStart(k, d)
    \/ \E c \in Handlers : HandleCallbackLookup(c)
    \/ \E c \in Handlers : HandleCallbackSignal(c)
    \/ \E c \in Handlers : HandleCallbackEditRaises(c)

SpecApprovalLive == Init /\ [][NextApprovalLive]_vars /\ ApprovalFairness

\* The work queues and the task processor beside the /skip command.
NextSkip ==
    \/ \E p \in Projects : next_task < MaxSkipTasks /\ Enqueue(p, "c1")
    \/ \E w \in Workers : ProcessQueueGet(w)
    \/ \E w \in Workers : ProcessQueueTimeout(w)
    \/ \E w \in Workers : ProcessQueueRun(w)
    \/ \E w \in Workers, t \in Tools \cup {None} : ProcessTaskExecuted(w, None, t, TRUE)
    \/ \E w \in Workers : msg_id["c1"] < MaxPrompts /\ RequestApproval(w)
    \/ \E k \in Keys : ApprovalClock(k)
    \/ \E w \in Workers : RequestApprovalReturns(w, "timeout")
    \/ \E w \in Workers : ProcessTaskDenied(w)
    \/ \E w \in Workers : ProcessTaskReported(w)
    \/ Len(returned) < MaxCalls /\ CmdSkip

SpecSkip == Init /\ [][NextSkip]_vars

\* The work queues under callbacks that return or raise: the event loop runs
\* a worker whose queue.get() can complete and a worker that holds a task, and
\* an invoked callback runs to its end. Nothing is assumed of the time-out of
\* an idle worker or of further enqueue calls.
QueueFairness ==
    \A w \in 1..MaxWorkers :
        /\ WF_vars(w \in Workers /\ ProcessQueueGet(w))
        /\ WF_vars(w \in Workers /\ ProcessQueueRun(w))
        /\ WF_vars(w \in Workers /\ ProcessTaskExecuted(w, None, None, TRUE))
        /\ WF_vars(w \in Workers /\ ProcessTaskReported(w))

NextQueueLive ==
    \/ \E p \in Projects : next_task < MaxTasks /\ Enqueue(p, "c1")
    \/ \E w \in Workers : ProcessQueueGet(w)
    \/ \E w \in Workers : ProcessQueueTimeout(w)
    \/ \E w \in Workers : ProcessQueueRun(w)
    \/ \E w \in Workers : ProcessTaskExecuted(w, None, None, TRUE)
    \/ \E w \in Workers : ProcessTaskReported(w)
    \/ \E w \in Workers : ProcessTaskRaises(w)

SpecQueueLive == Init /\ [][NextQueueLive]_vars /\ QueueFairness

\* The scheduler beside the work queue of a project that asks for no approval.
NextScheduled ==
    \/ \E p \in Projects, ty \in {"once", "daily"} :
          /\ Len(task_objs) < MaxScheduled
          /\ CreateTask("c1", p, ty, 0, IF ty = "once" THEN <<>> ELSE <<9, 0>>, <<>>)
    \/ \E now \in {sched.now, sched.now + CheckInterval, sched.now + SecondsPerDay} :
          /\ sched.ticks < MaxTicks
          /\ RunSchedulerTick(now)
    \/ ExecuteScheduledTaskRuns
    \/ \E sid \in SessionIds \cup {None} : ExecuteScheduledTaskExecuted(sid)
    \/ RunSchedulerUpdates
    \/ next_task < MaxBeside /\ Enqueue("api", "c1")
    \/ \E w \in Workers : ProcessQueueGet(w)
    \/ \E w \in Workers : ProcessQueueTimeout(w)
    \/ \E w \in Workers : ProcessQueueRun(w)
    \/ \E w \in Workers, sid \in SessionIds \cup {None} :
          ProcessTaskExecuted(w, sid, None, TRUE)
    \/ \E w \in Workers : ProcessTaskReported(w)
    \/ \E w \in Workers : ProcessTaskRaises(w)

SpecScheduled == Init /\ [][NextScheduled]_vars

\* The work queues while projects are removed from the configuration; a
\* message is routed to a configured project only.
NextProjects ==
    \/ \E p \in projects : next_task < MaxTasks /\ Enqueue(p, "c1")
    \/ \E p \in Projects : RemoveProject(p)
    \/ \E w \in Workers : ProcessQueueGet(w)
    \/ \E w \in Workers : ProcessQueueTimeout(w)
    \/ \E w \in Workers : ProcessQueueRun(w)
    \/ \E w \in Workers, t \in Tools \cup {None}, ok \in BOOLEAN :
          ProcessTaskExecuted(w, None, t, ok)
    \/ \E w \in Workers : msg_id["c1"] < MaxPrompts /\ RequestApproval(w)
    \/ \E k \in Keys : ApprovalClock(k)
    \/ \E w \in Workers : RequestApprovalReturns(w, "timeout")
    \/ \E w \in Workers : ProcessTaskDenied(w)
    \/ \E w \in Workers : ProcessTaskReported(w)
    \/ \E w \in Workers : ProcessTaskRaises(w)

SpecProjects == Init /\ [][NextProjects]_vars

\* The session handle over the tasks of an ask-all project: the Executor
\* returns a handle or none, succeeds, fails or asks for a tool; a prompt is
\* left unanswered.
NextSession ==
    \/ next_task < MaxSessionTasks /\ Enqueue("web", "c1")
    \/ \E w \in Workers : ProcessQueueGet(w)
    \/ \E w \in Workers : ProcessQueueRun(w)
    \/ \E w \in Workers, sid \in SessionIds \cup {None}, t \in Tools \cup {None},
          ok \in BOOLEAN : ProcessTaskExecuted(w, sid, t, ok)
    \/ \E w \in Workers : msg_id["c1"] < MaxPrompts /\ RequestApproval(w)
    \/ \E k \in Keys : ApprovalClock(k)
    \/ \E w \in Workers : RequestApprovalReturns(w, "timeout")
    \/ \E w \in Workers : ProcessTaskDenied(w)
    \/ \E w \in Workers : ProcessTaskReported(w)

SpecSession == Init /\ [][NextSession]_vars

\* The task processor under both policies: the Executor reports a permission
\* need or none, succeeds or fails; a prompt is approved, denied or left
\* unanswered.
NextPolicy ==
    \/ \E p \in Projects : next_task < MaxApprovalTasks /\ Enqueue(p, "c1")
    \/ \E w \in Workers : ProcessQueueGet(w)
    \/ \E w \in Workers : ProcessQueueRun(w)
    \/ \E w \in Workers, t \in Tools \cup {None}, ok \in BOOLEAN :
          ProcessTaskExecuted(w, None, t, ok)
    \/ \E w \in Workers : msg_id["c1"] < MaxPrompts /\ RequestApproval(w)
    \/ \E k \in Keys : ApprovalClock(k)
    \/ \E w \in Workers, by \in {"event", "timeout"} : RequestApprovalReturns(w, by)
    \/ \E w \in Workers : ProcessTaskDenied(w)
    \/ \E w \in Workers : ProcessTaskReported(w)
    \/ \E k \in Keys, d \in {"approve", "deny"} : k[1] = "c1" /\ HandleCallbackStart(k, d)
    \/ \E c \in Handlers : HandleCallbackLookup(c)
    \/ \E c \in Handlers : HandleCallbackSignal(c)

SpecPolicy == Init /\ [][NextPolicy]_vars

\* telegram_bot.py:755: denial.get("tool", "unknown"): the tool a denial
\* names, or "unknown" for a denial record that has no "tool" entry
LoopTools == {"Write", "unknown"}

\* The execute/approve/re-execute loop of one ask-all task with an Executor
\* that honours its allow-list (claude_interface.py:82-84): it reports no need
\* for a tool it was allowed, but a denial record without a "tool" entry reads
\* as "unknown" whatever tool it is about.
NextLoop ==
    \/ next_task < MaxApprovalTasks /\ Enqueue("web", "c1")
    \/ \E w \in Workers : ProcessQueueGet(w)
    \/ \E w \in Workers : ProcessQueueRun(w)
    \/ \E w \in Workers, t \in LoopTools \cup {None}, ok \in BOOLEAN :
          /\ t \in proc[w].allowed_tools => t = "unknown"
          /\ ProcessTaskExecuted(w, None, t, ok)
    \/ \E w \in Workers : RequestApproval(w)
    \/ \E k \in Keys : ApprovalClock(k)
    \/ \E w \in Workers, by \in {"event", "timeout"} : RequestApprovalReturns(w, by)
    \/ \E w \in Workers : ProcessTaskDenied(w)
    \/ \E w \in Workers : ProcessTaskReported(w)
    \/ \E k \in Keys, d \in {"approve", "deny"} : k[1] = "c1" /\ HandleCallbackStart(k, d)
    \/ \E c \in Handlers : HandleCallbackLookup(c)
    \/ \E c \in Handlers : HandleCallbackSignal(c)

SpecLoop == Init /\ [][NextLoop]_vars

\* The session handle inside one ask-all task: the Executor returns a handle
\* and a permission need, the prompt is approved or denied, the Executor is
\* invoked again.
NextResume ==
    \/ next_task < MaxApprovalTasks /\ Enqueue("web", "c1")
    \/ \E w \in Workers : ProcessQueueGet(w)
    \/ \E w \in Workers : ProcessQueueRun(w)
    \/ \E w \in Workers, sid \in SessionIds \cup {None}, t \in Tools \cup {None} :
          ProcessTaskExecuted(w, sid, t, TRUE)
    \/ \E w \in Workers : msg_id["c1"] < MaxPrompts /\ RequestApproval(w)
    \/ \E w \in Workers : RequestApprovalReturns(w, "event")
    \/ \E w \in Workers : ProcessTaskDenied(w)
    \/ \E w \in Workers : ProcessTaskReported(w)
    \/ \E k \in Keys, d \in {"approve", "deny"} : k[1] = "c1" /\ HandleCallbackStart(k, d)
    \/ \E c \in Handlers : HandleCallbackLookup(c)
    \/ \E c \in Handlers : HandleCallbackSignal(c)

SpecResume == Init /\ [][NextResume]_vars

\* The task processor of an ask-all project whose Executor asks for one tool
\* after another, and fails or succeeds.
NextGrant ==
    \/ next_task < MaxApprovalTasks /\ Enqueue("web", "c1")
    \/ \E w \in Workers : ProcessQueueGet(w)
    \/ \E w \in Workers : ProcessQueueRun(w)
    \/ \E w \in Workers, t \in GrantTools \cup {None}, ok \in BOOLEAN :
          ProcessTaskExecuted(w, None, t, ok)
    \/ \E w \in Workers : RequestApproval(w)
    \/ \E k \in Keys : ApprovalClock(k)
    \/ \E w \in Workers, by \in {"event", "timeout"} : RequestApprovalReturns(w, by)
    \/ \E w \in Workers : ProcessTaskDenied(w)
    \/ \E w \in Workers : ProcessTaskReported(w)
    \/ \E k \in Keys, d \in {"approve", "deny"} : k[1] = "c1" /\ HandleCallbackStart(k, d)
    \/ \E c \in Handlers : HandleCallbackLookup(c)
    \/ \E c \in Handlers : HandleCallbackSignal(c)

SpecGrant == Init /\ [][NextGrant]_vars

\* The scheduler on its own: tasks are created and deleted while it ticks; a
\* once task is first due at once or a day later, a daily task at once.
NextScheduler ==
    \/ \E ty \in {"once", "daily"}, run_time \in {0, SecondsPerDay} :
          /\ Len(task_objs) < MaxSchedTasks
          /\ ty = "daily" => run_time = 0
          /\ CreateTask("c1", "api", ty, run_time,
                        IF ty = "once" THEN <<>> ELSE <<9, 0>>, <<>>)
    \/ \E i \in DOMAIN task_objs : DeleteTask(i)
    \/ \E now \in {sched.now + CheckInterval, sched.now + SecondsPerDay} :
          /\ sched.ticks < MaxTicks
          /\ RunSchedulerTick(now)
    \/ ExecuteScheduledTaskRuns
    \/ ExecuteScheduledTaskExecuted(None)
    \/ RunSchedulerUpdates

SpecScheduler == Init /\ [][NextScheduler]_vars

\* the calls of operation op in the history
CallsOf(op) == Cardinality({i \in DOMAIN returned : returned[i][1] = op})

\* The /schedule and /deletetask commands: every kind a user may type, the
\* ids of tasks that exist, that were deleted and that never existed.
NextCommands ==
    \/ \E ty \in {"once", "daily", "weekly", "hourly"}, p \in Projects :
          /\ CallsOf("create_task") < MaxSchedTasks
          /\ CmdSchedule("c1", p, ty, 0, IF ty = "once" THEN <<>> ELSE <<9, 0>>,
                         IF ty = "weekly" THEN <<0>> ELSE <<>>)
    \/ \E i \in 1..(MaxSchedTasks + 1) :
          /\ CallsOf("delete_task") < MaxCalls
          /\ CmdDeleteTask(i)

SpecCommands == Init /\ [][NextCommands]_vars

\* time arguments: 09:00, 23:59, 24:00, 09:60, a text with no colon, a text
\* with two colons, a text whose hour is no number
TimeArgs == { << <<9>>, <<0>> >>, << <<23>>, <<59>> >>, << <<24>>, <<0>> >>,
              << <<9>>, <<60>> >>, << <<9>> >>, << <<9>>, <<0>>, <<0>> >>,
              << <<>>, <<0>> >> }

\* day arguments: no number, -1, 0, 6, 7
DayArgs == {<<>>, <<-1>>, <<0>>, <<6>>, <<7>>}

\* The scheduler with recurring tasks created from the text of /schedule.
NextSchedule ==
    \/ \E ty \in {"daily", "weekly"}, day \in DayArgs, time \in TimeArgs :
          /\ CallsOf("create_task") < MaxScheduled
          /\ ty = "daily" => day = <<>>
          /\ CmdScheduleText("c1", "api", ty, day, time)
    \/ \E i \in DOMAIN task_objs :
          /\ CallsOf("delete_task") < MaxScheduled
          /\ CmdDeleteTask(i)
    \/ \E now \in {sched.now + CheckInterval, sched.now + SecondsPerDay} :
          /\ sched.ticks < MaxTicks
          /\ RunSchedulerTick(now)
    \/ ExecuteScheduledTaskRuns
    \/ ExecuteScheduledTaskExecuted(None)
    \/ RunSchedulerUpdates

SpecSchedule == Init /\ [][NextSchedule]_vars

\* The scheduler beside /deletetask: tasks due at once are deleted before,
\* between and inside the ticks.
NextDelete ==
    \/ \E ty \in {"once", "daily"} :
          /\ Len(task_objs) < MaxSchedTasks
          /\ CreateTask("c1", "api", ty, 0, IF ty = "once" THEN <<>> ELSE <<9, 0>>, <<>>)
    \/ \E i \in 1..MaxSchedTasks :
          /\ CallsOf("delete_task") < MaxScheduled
          /\ CmdDeleteTask(i)
    \/ \E now \in {sched.now + CheckInterval, sched.now + SecondsPerDay} :
          /\ sched.ticks < MaxTicks
          /\ RunSchedulerTick(now)
    \/ ExecuteScheduledTaskRuns
    \/ ExecuteScheduledTaskExecuted(None)
    \/ RunSchedulerUpdates

SpecDelete == Init /\ [][NextDelete]_vars

\* the outcomes of a _save that raises
SaveFailures == {"untouched", "truncated"}

\* The scheduler with a store whose writes may fail.
NextStore ==
    \/ \E ty \in {"once", "daily"} :
          /\ Len(task_objs) < MaxSchedTasks
          /\ CreateTask("c1", "api", ty, 0, IF ty = "once" THEN <<>> ELSE <<9, 0>>, <<>>)
    \/ \E ty \in {"once", "daily"}, left \in SaveFailures :
          /\ Len(task_objs) < MaxSchedTasks
          /\ CreateTaskSaveFails("c1", "api", ty, 0,
                                 IF ty = "once" THEN <<>> ELSE <<9, 0>>, <<>>, left)
    \/ \E i \in DOMAIN task_objs : DeleteTask(i)
    \/ \E i \in DOMAIN task_objs, left \in SaveFailures : DeleteTaskSaveFails(i, left)
    \/ \E now \in {sched.now + CheckInterval, sched.now + SecondsPerDay} :
          /\ sched.ticks < MaxTicks
          /\ RunSchedulerTick(now)
    \/ ExecuteScheduledTaskRuns
    \/ ExecuteScheduledTaskExecuted(None)
    \/ RunSchedulerUpdates
    \/ \E left \in SaveFailures : RunSchedulerSaveFails(left)

SpecStore == Init /\ [][NextStore]_vars

\* The scheduler across restarts of the process.
NextRestart ==
    \/ \E ty \in {"once", "daily"}, run_time \in {0, SecondsPerDay} :
          /\ Len(task_objs) < MaxScheduled
          /\ ty = "daily" => run_time = 0
          /\ CreateTask("c1", "api", ty, run_time,
                        IF ty = "once" THEN <<>> ELSE <<9, 0>>, <<>>)
    \/ \E i \in DOMAIN task_objs : DeleteTask(i)
    \/ \E now \in {sched.now + CheckInterval, sched.now + SecondsPerDay} :
          /\ sched.ticks < MaxTicks
          /\ RunSchedulerTick(now)
    \/ ExecuteScheduledTaskRuns
    \/ ExecuteScheduledTaskExecuted(None)
    \/ RunSchedulerUpdates
    \/ sched.restarts < MaxRestarts /\ Restart
    \/ sched.restarts < MaxRestarts /\ RestartInSave

SpecRestart == Init /\ [][NextRestart]_vars

\* The recurrence arithmetic: one recurring task, overdue since the epoch, is
\* processed by ticks that read the clock on any weekday, at times of day
\* before, at and after the task's time_of_day.
CalcTimesOfDay == {<<0, 0>>, <<9, 0>>, <<23, 59>>}

CalcClock == {0, 32399, 32400, 32401, 34200, 86340, 86399}

CalcNows == {d * SecondsPerDay + t : d \in 0..CalcDays, t \in CalcClock}

CalcTasks ==
    {[task_id |-> 1, chat_id |-> "c1", project_name |-> "api", schedule_type |-> ty,
      next_run |-> 0, enabled |-> TRUE, time_of_day |-> tod, day_of_week |-> dow,
      last_run |-> <<>>] :
        ty \in {"daily", "weekly"}, tod \in CalcTimesOfDay,
        dow \in {<<>>} \cup {<<d>> : d \in 0..6}}

InitCalc ==
    /\ queues = [p \in Projects |-> <<>>]
    /\ processors = [p \in Projects |-> 0]
    /\ current_tasks = [p \in Projects |-> 0]
    /\ skip_events = [p \in Projects |-> "absent"]
    /\ worker = <<>>
    /\ proc = <<>>
    /\ sessions = [p \in Projects |-> None]
    /\ pending = {}
    /\ approval = [k \in Keys |-> [approved |-> None, event |-> FALSE]]
    /\ elapsed = [k \in Keys |-> 0]
    /\ result = [k \in Keys |-> None]
    /\ callbacks = <<>>
    /\ msg_id = [c \in Chats |-> 0]
    /\ \E task \in CalcTasks :
          /\ task.schedule_type = "daily" => task.day_of_week = <<>>
          /\ task_objs = <<task>>
    /\ task_ids = {1}
    /\ tasks_file = Save(task_objs, task_ids)
    /\ sched = [pc |-> "starting", now |-> 0, ticks |-> 0, restarts |-> 0,
                todo |-> <<>>, session_id |-> None]
    /\ fired = <<>>
    /\ tick_due = {}
    /\ next_task = 0
    /\ enqueued = [p \in Projects |-> <<>>]
    /\ log = [p \in Projects |-> <<>>]
    /\ stored = [k \in Keys |-> <<>>]
    /\ ret_elapsed = [k \in Keys |-> 0]
    /\ projects = Projects
    /\ returned = <<>>

NextCalc ==
    \/ \E now \in CalcNows :
          /\ sched.ticks < MaxCalcTicks
          /\ RunSchedulerTick(now)
    \/ ExecuteScheduledTaskRuns
    \/ ExecuteScheduledTaskExecuted(None)
    \/ RunSchedulerUpdates

SpecCalc == InitCalc /\ [][NextCalc]_vars

\* the clock at the ticks that follow one another over a week
AdvanceNows == {d * SecondsPerDay + t : d \in {0, 1, 7, 8}, t \in {32399, 32400, 34200}}

\* A recurring task, overdue since the epoch, and a once task beside it over
\* several ticks; a callback returns or raises.
NextAdvance ==
    \/ /\ Len(task_objs) < MaxSchedTasks
       /\ CreateTask("c1", "api", "once", 0, <<>>, <<>>)
    \/ \E now \in AdvanceNows :
          /\ sched.ticks < MaxAdvanceTicks
          /\ RunSchedulerTick(now)
    \/ ExecuteScheduledTaskRuns
    \/ ExecuteScheduledTaskExecuted(None)
    \/ RunSchedulerUpdates

SpecAdvance == InitCalc /\ [][NextAdvance]_vars

\* ============================================================== claims

IsPrefix(s, t) == Len(s) <= Len(t) /\ \A i \in DOMAIN s : s[i] = t[i]

Last(s) == s[Len(s)]

\* the task ids of the "start" events of a log, in order
RECURSIVE Started(_)
Started(l) ==
    IF l = <<>> THEN <<>>
    ELSE IF Head(l)[1] = "start" THEN <<Head(l)[2]>> \o Started(Tail(l))
    ELSE Started(Tail(l))

RunningFor(p) == {w \in Workers : ProjectOf(w) = p /\ worker[w].pc = "running"}

\* C1: the callbacks of a project's tasks start in enqueue order, and each has
\* returned or raised before the next one starts: a project's log is
\* start t1, end t1, start t2, end t2, ... with t1, t2, ... a prefix of the
\* project's enqueue order.
C1_FifoOneAtATime ==
    \A p \in Projects :
        /\ IsPrefix(Started(log[p]), enqueued[p])
        /\ \A i \in DOMAIN log[p] :
              IF i % 2 = 1
              THEN log[p][i][1] = "start"
              ELSE log[p][i][1] # "start" /\ log[p][i][2] = log[p][i - 1][2]

\* two tasks of one project: the second has started after the first ended
C1_Witness ==
    \E p \in Projects : Len(log[p]) >= 3 /\ Len(enqueued[p]) >= 2

\* Executor invocations in progress for project p: those of the work queue's
\* callbacks and the one of the scheduler's callback
ExecutorsInFlight(p) ==
    Cardinality({w \in RunningFor(p) : proc[w].pc = "executing"})
    + (IF sched.pc = "executing" /\ ScheduledTaskOf(sched).project_name = p
       THEN 1 ELSE 0)

\* C2: at most one Executor invocation is in progress for a project, counting
\* the tasks of the work queue and the tasks fired by the scheduler's tick.
C2_OneExecutorPerProject ==
    \A p \in Projects : ExecutorsInFlight(p) <= 1

\* C3: the work of a due scheduled task goes through the project's work queue:
\* while the scheduler's callback runs for a project, no callback of a task
\* submitted to that project's queue is in flight beside it.
C3_ScheduledWorkQueued ==
    \A p \in Projects :
        (sched.pc \in {"notifying", "executing", "reporting"}
         /\ ScheduledTaskOf(sched).project_name = p)
        => RunningFor(p) = {}

\* C4: a task in flight for one project, blocked on an approval or not, never
\* keeps the worker of another project from taking and starting its task: a
\* waiting worker with a queued task can take it, a worker that has taken a
\* task can start it, whatever the other workers do.
C4_ProjectsIndependent ==
    \A w \in Workers :
        /\ (worker[w].pc = "waiting" /\ queues[ProjectOf(w)] # <<>>)
           => ENABLED ProcessQueueGet(w)
        /\ worker[w].pc = "taken" => ENABLED ProcessQueueRun(w)

\* one project's task waits for an approval while the other project's worker
\* takes, or has in flight, a task of its own
C4_Witness ==
    \E v, w \in Workers :
        /\ ProjectOf(v) # ProjectOf(w)
        /\ worker[v].pc = "running" /\ proc[v].pc = "awaiting"
        /\ worker[w].pc = "running"
        /\ Len(log[ProjectOf(v)]) = 1

\* C5: when the callback raises, the worker stays alive (it waits for the
\* next task), the in-flight marker is cleared and the tasks queued behind the
\* failed one stay queued in their order.
C5_WorkerSurvivesError ==
    [][\A w \in Workers :
          (/\ worker[w].pc = "running"
           /\ Len(log'[ProjectOf(w)]) = Len(log[ProjectOf(w)]) + 1
           /\ Last(log'[ProjectOf(w)]) = <<"raised", worker[w].task.id>>)
          => /\ worker'[w].pc = "waiting"
             /\ current_tasks'[ProjectOf(w)] = 0
             /\ queues'[ProjectOf(w)] = queues[ProjectOf(w)]]_vars

\* a callback raised and the worker has started the task queued behind it
C5_Witness ==
    \E p \in Projects :
        /\ Len(log[p]) >= 3
        /\ log[p][2][1] = "raised"
        /\ log[p][3][1] = "start"

Values(k) == {stored[k][i].value : i \in DOMAIN stored[k]}

\* C6: request_approval returns true only if an approve decision was stored in
\* its entry while it was registered; it returns false only if a deny decision
\* was stored or the timeout had elapsed when it returned.
C6_ReturnValueSound ==
    \A k \in Keys :
        /\ result[k] = "true" => "yes" \in Values(k)
        /\ result[k] = "false" => ("no" \in Values(k) \/ ret_elapsed[k] >= ApprovalTimeout)

\* a request returned true, another returned false at the timeout with no
\* decision
C6_Witness ==
    \E k, j \in Keys :
        /\ result[k] = "true"
        /\ result[j] = "false" /\ stored[j] = <<>>

\* C7: a decision stored for a pending request before its timeout elapses is
\* the value request_approval returns, for every interleaving of the
\* handler's steps with the timeout (stated for a request with one decision).
C7_DecisionBeforeTimeoutReturned ==
    \A k \in Keys :
        (result[k] # None /\ Len(stored[k]) = 1 /\ stored[k][1].at < ApprovalTimeout)
        => result[k] = (IF stored[k][1].value = "yes" THEN "true" ELSE "false")

\* C8: of two decisions stored for one pending request before the timeout,
\* the first determines the value request_approval returns.
C8_FirstDecisionWins ==
    \A k \in Keys :
        (/\ result[k] # None
         /\ Len(stored[k]) >= 2
         /\ ret_elapsed[k] < ApprovalTimeout)
        => result[k] = (IF stored[k][1].value = "yes" THEN "true" ELSE "false")

\* C9: a decision handled for a key with no pending entry changes nothing: the
\* handler ends with "expired" and no error, and the pending map, the
\* approval objects and the values already returned stay as they were.
C9_StaleDecisionNoOp ==
    [][\A c \in Handlers :
          (/\ callbacks[c].pc = "answering"
           /\ callbacks'[c].pc # "answering"
           /\ callbacks[c].key \notin pending)
          => /\ callbacks'[c].outcome = "expired"
             /\ pending' = pending
             /\ approval' = approval
             /\ result' = result]_vars

\* a decision was handled after its request had timed out
C9_Witness ==
    \E c \in Handlers :
        /\ callbacks[c].outcome = "expired"
        /\ result[callbacks[c].key] = "false"
        /\ ret_elapsed[callbacks[c].key] >= ApprovalTimeout

\* C10: the pending map holds a key exactly while a request_approval call for
\* that key is blocked.
C10_PendingIffBlocked ==
    \A k \in Keys :
        k \in pending
        <=> \E w \in Workers :
               worker[w].pc = "running" /\ proc[w].pc = "awaiting" /\ proc[w].key = k

\* one request has returned and left the map, another one is blocked
C10_Witness ==
    \E k, j \in Keys :
        /\ result[k] # None /\ k \notin pending
        /\ j \in pending

\* C11: every request_approval call returns: a registered request leaves the
\* pending map with a result, at the latest when its 300 s have run out,
\* whatever decisions are or are not delivered meanwhile.
C11_RequestApprovalReturns ==
    \A k \in Keys : (k \in pending) ~> (k \notin pending /\ result[k] # None)

\* a request returned at its timeout although a decision's handler had started
\* and never signalled
C11_Witness ==
    \E k \in Keys, c \in Handlers :
        /\ result[k] = "false" /\ k \notin pending
        /\ ret_elapsed[k] >= ApprovalTimeout
        /\ callbacks[c].key = k /\ callbacks[c].pc = "editing"

\* the invocations of the callback in tick n
FiredIn(f, n) == {i \in DOMAIN f : f[i].tick = n}

FiredTasks(f, n) == {f[i].task_id : i \in FiredIn(f, n)}

\* C12: in a tick the callback is invoked once for each task that was enabled
\* with next_run <= now when the tick read the clock and for no other task
\* (never twice, and all of them once the tick is over); after its
\* invocation the task's last_run is the tick's now.
C12_TickInvokesDueOnce ==
    /\ FiredTasks(fired, sched.ticks) \subseteq tick_due
    /\ Cardinality(FiredIn(fired, sched.ticks)) = Cardinality(FiredTasks(fired, sched.ticks))
    /\ sched.pc = "sleeping" => FiredTasks(fired, sched.ticks) = tick_due
    /\ \A i \in FiredIn(fired, sched.ticks) :
           fired[i].how # "running" => task_objs[fired[i].task_id].last_run = <<sched.now>>

\* a tick is over in which one task of _tasks was invoked and another, not
\* due or disabled, was not
C12_Witness ==
    /\ sched.pc = "sleeping"
    /\ \E i, j \in task_ids :
           /\ i \in FiredTasks(fired, sched.ticks)
           /\ j \notin FiredTasks(fired, sched.ticks)
           /\ (~task_objs[j].enabled \/ task_objs[j].next_run > sched.now)

OnceTasks == {i \in DOMAIN task_objs : task_objs[i].schedule_type = "once"}

\* C13: a task of kind once is invoked by at most one tick: the update after
\* its invocation disables it and leaves its next_run as it was, and it has
\* never more than one invocation.
C13_OnceRunsOnce ==
    [][\A i \in OnceTasks :
          /\ Cardinality({j \in DOMAIN fired' : fired'[j].task_id = i}) <= 1
          /\ (sched.pc \in {"notifying", "reporting"} /\ Head(sched.todo) = i
              /\ task_objs'[i] # task_objs[i])
             => /\ ~task_objs'[i].enabled
                /\ task_objs'[i].next_run = task_objs[i].next_run]_vars

\* a once task was invoked in the first tick, and a later tick has passed it by
C13_Witness ==
    \E i \in OnceTasks \cap task_ids :
        /\ 1 \in FiredIn(fired, 1) /\ fired[1].task_id = i
        /\ sched.ticks = 2 /\ sched.pc = "sleeping"
        /\ sched.now >= task_objs[i].next_run
        /\ ~task_objs[i].enabled

\* C16: when the callback raises for a due task, the other tasks due in that
\* tick are still invoked in it, and the loop goes on to its sleep, from
\* which the next tick starts.
C16_TickSurvivesCallbackError ==
    (\E i \in FiredIn(fired, sched.ticks) : fired[i].how = "raised")
    => /\ sched.pc \in {"notifying", "executing", "reporting", "sleeping"}
       /\ sched.pc = "sleeping"
          => /\ FiredTasks(fired, sched.ticks) = tick_due
             /\ ENABLED RunSchedulerTick(sched.now + CheckInterval)
       /\ sched.pc # "sleeping"
          => \A i \in tick_due : i \in FiredTasks(fired, sched.ticks)
                                  \/ \E j \in DOMAIN sched.todo : sched.todo[j] = i

\* the callback raised for the first of two tasks due in the first tick, the
\* second was invoked in that tick, and the next tick has started
C16_Witness ==
    /\ Len(fired) >= 2
    /\ fired[1].tick = 1 /\ fired[1].how = "raised"
    /\ fired[2].tick = 1
    /\ sched.ticks = 2

\* the records of a sequence, as a set
Records(recs) == {recs[j] : j \in DOMAIN recs}

C18_StoreRewrittenAtomically ==
    [][(sched'.restarts > sched.restarts /\ task_ids # {})
       => /\ tasks_file'.whole
          /\ task_ids' # {}]_vars

\* seconds since midnight of a time_of_day
SecondOfDay(tod) == tod[1] * 3600 + tod[2] * 60

\* the task the tick loop is updating in this step
Processed(i) ==
    /\ sched.pc \in {"notifying", "reporting"}
    /\ Head(sched.todo) = i
    /\ task_objs'[i] # task_objs[i]

\* C14: after a daily task is processed at `now`, its next_run is the earliest
\* instant strictly after now at its time_of_day: later than now, at that
\* time of day, and with no such instant a day earlier.
C14_DailyNextOccurrence ==
    [][\A i \in DOMAIN task_objs :
          (Processed(i) /\ task_objs[i].schedule_type = "daily")
          => /\ task_objs'[i].next_run > sched.now
             /\ task_objs'[i].next_run % SecondsPerDay = SecondOfDay(task_objs[i].time_of_day)
             /\ task_objs'[i].next_run - SecondsPerDay <= sched.now]_vars

\* a daily 09:00 task was processed at 09:30 of day 2 and is due at 09:00 of
\* day 3
C14_Witness ==
    /\ task_objs[1].schedule_type = "daily"
    /\ task_objs[1].time_of_day = <<9, 0>>
    /\ task_objs[1].last_run = <<2 * SecondsPerDay + 34200>>
    /\ task_objs[1].next_run = 3 * SecondsPerDay + 32400

\* C15: after a weekly task (with a day_of_week) is processed at `now`, its
\* next_run is the next occurrence of that weekday at time_of_day strictly
\* after now, on whatever weekday and at whatever time of day now falls:
\* later than now, on that weekday at that time, and with no such instant a
\* week earlier.
C15_WeeklyNextOccurrence ==
    [][\A i \in DOMAIN task_objs :
          (/\ Processed(i)
           /\ task_objs[i].schedule_type = "weekly"
           /\ task_objs[i].day_of_week # <<>>)
          => /\ task_objs'[i].next_run > sched.now
             /\ task_objs'[i].next_run % SecondsPerDay = SecondOfDay(task_objs[i].time_of_day)
             /\ (task_objs'[i].next_run \div SecondsPerDay) % 7 = task_objs[i].day_of_week[1]
             /\ task_objs'[i].next_run - 7 * SecondsPerDay <= sched.now]_vars

\* request_approval returns `value` to worker w in this step
Returned(w, value) ==
    /\ proc[w].pc = "awaiting"
    /\ proc'[w].pc # "awaiting"
    /\ result'[proc[w].key] = value

C20_DenialEndsTask ==
    [][\A w \in Workers :
          /\ Returned(w, "false") => proc'[w].pc = "denying"
          /\ proc[w].pc = "denying"
             => /\ proc'[w].pc \in {"denying", "idle"}
                /\ proc'[w].pc = "idle"
                   => Last(log'[ProjectOf(w)]) = <<"denied", worker[w].task.id>>]_vars

\* a task ended as denied after its request ran into the timeout with no
\* decision
C20_Witness ==
    \E k \in Keys :
        /\ result[k] = "false" /\ stored[k] = <<>>
        /\ log["web"] # <<>> /\ Last(log["web"])[1] = "denied"

\* the terminal outcome messages sent for task t: the result message of a
\* task that ended as done or failed, the denial message of one that ended as
\* denied
TerminalMessages(l, t) ==
    Cardinality({i \in DOMAIN l : l[i][2] = t /\ l[i][1] \in {"done", "failed", "denied"}})

\* C21: every task the worker has taken and finished with has produced
\* exactly one terminal outcome message, whatever its outcome, an error raised
\* inside its processing included.
C21_OneTerminalMessage ==
    \A p \in Projects :
        \A i \in DOMAIN log[p] :
            log[p][i][1] # "start" => TerminalMessages(log[p], log[p][i][2]) = 1

\* the Executor returns to worker w in this step
ExecutorReturns(w) == proc[w].pc = "executing" /\ proc'[w].pc # "executing"

\* C22: when an Executor invocation returns a session handle, the project's
\* stored handle becomes that handle; nothing else on the task's way to done,
\* failed or denied changes it; and the first invocation of the project's
\* next task is made with the stored handle.
C22_SessionHandleKept ==
    [][\A p \in Projects :
          LET returning == {w \in Workers : ProjectOf(w) = p /\ ExecutorReturns(w)
                                             /\ proc'[w].result_session_id # None}
          IN /\ \A w \in returning : sessions'[p] = proc'[w].result_session_id
             /\ returning = {} => sessions'[p] = sessions[p]
             /\ \A w \in Workers :
                   (ProjectOf(w) = p /\ worker[w].pc = "taken" /\ worker'[w].pc = "running")
                   => proc'[w].session_id = sessions[p]]_vars

\* a task returned a handle and ended as denied, and the project's next task
\* runs its first invocation with that handle
C22_Witness ==
    \E w \in Workers :
        /\ Len(log["web"]) = 3
        /\ log["web"][2][1] = "denied"
        /\ proc[w].pc = "executing"
        /\ proc[w].session_id \in SessionIds
        /\ proc[w].session_id = sessions["web"]

\* the tasks of project p that the worker has taken and not finished
InFlight(p) == {w \in Workers : ProjectOf(w) = p /\ worker[w].pc \in {"taken", "running"}}

\* C23: the position returned by enqueue is the number of tasks of the
\* project that run before the new one: the queued ones plus the one the
\* worker holds, whether or not the worker has marked it in flight yet.
C23_PositionCountsTasksAhead ==
    [][\A p \in Projects :
          enqueued'[p] # enqueued[p]
          => EnqueuePosition(p) = Len(queues[p]) + Cardinality(InFlight(p))]_vars

\* the ids of the tasks of project p that wait in its queue
Queued(p) == {queues[p][i].id : i \in DOMAIN queues[p]}

\* C24: current_task(project) is the task whose callback is executing for the
\* project and none when no callback is executing, so it is none again once
\* the callback has returned or raised; queue_size(project) counts the tasks
\* still waiting, never the one in flight.
C24_CurrentTaskIsTheRunningOne ==
    \A p \in Projects :
        /\ RunningFor(p) = {} => GetCurrentTask(p) = 0
        /\ \A w \in RunningFor(p) :
              /\ GetCurrentTask(p) = worker[w].task.id
              /\ worker[w].task.id \notin Queued(p)
        /\ GetQueueSize(p) = Len(enqueued[p]) - Len(Started(log[p]))
                                - Cardinality({w \in InFlight(p) : worker[w].pc = "taken"})

\* a callback has raised, the marker is none again, and a task waits in the
\* queue behind it
C24_Witness ==
    \E p \in Projects :
        /\ log[p] # <<>>
        /\ Last(log[p])[1] = "raised"
        /\ GetCurrentTask(p) = 0
        /\ GetQueueSize(p) = 1

\* the workers of project p that have not stopped
ActiveWorkers(p) == {w \in Workers : ProjectOf(w) = p /\ worker[w].pc # "done"}

\* C25: at most one worker is active per project, however enqueue calls
\* interleave with the worker starting, processing and stopping on idle.
C25_OneActiveWorker ==
    \A p \in Projects : Cardinality(ActiveWorkers(p)) <= 1

\* a project whose first worker has stopped on idle and whose second worker
\* holds a task, with a further task enqueued meanwhile
C25_Witness ==
    \E p \in Projects : \E v, w \in Workers :
        /\ ProjectOf(v) = p /\ worker[v].pc = "done"
        /\ ProjectOf(w) = p /\ worker[w].pc = "running"
        /\ queues[p] # <<>>

\* task t has been enqueued for some project
IsEnqueued(t) == \E p \in Projects : \E i \in DOMAIN enqueued[p] : enqueued[p][i] = t

\* task t has been handed to the callback
IsHandedOver(t) == \E p \in Projects : \E i \in DOMAIN log[p] : log[p][i] = <<"start", t>>

\* C26: every enqueued task is eventually handed to the callback, provided the
\* callbacks before it end: no task stays in a queue whose worker has stopped
\* on idle, however the enqueue falls against the time-out.
C26_EnqueuedIsHandedOver ==
    \A t \in 1..MaxTasks : IsEnqueued(t) ~> IsHandedOver(t)

\* the worker of a project stopped on idle, a task enqueued after that was
\* handed to the callback by a second worker, and nothing waits
C26_Witness ==
    \E p \in Projects : \E v, w \in Workers :
        /\ v < w
        /\ ProjectOf(v) = p /\ worker[v].pc = "done"
        /\ ProjectOf(w) = p
        /\ Len(enqueued[p]) >= 2
        /\ Len(Started(log[p])) = Len(enqueued[p])

\* the calls a step has added to the history
NewCalls == {i \in DOMAIN returned' : i > Len(returned)}

\* C27: skip_current(project) returns true exactly when a task of the project
\* is in flight at the call, and then the project's skip flag is set; it
\* returns false for a project with no task in flight, a project that never
\* had a worker included. The flag of a project that has one is set by every
\* call.
C27_SkipCurrentReportsInFlight ==
    [][\A i \in NewCalls :
          returned'[i][1] = "skip_current"
          => LET p == returned'[i][2]
             IN /\ returned'[i][3] <=> RunningFor(p) # {}
                /\ returned'[i][3] => skip_events'[p] = "set"
                /\ skip_events[p] # "absent" => skip_events'[p] = "set"
                /\ processors[p] = 0 => ~returned'[i][3]]_vars

\* a /skip found no task in flight for web, which never had a worker, and
\* a task in flight for api
C27_Witness ==
    \E i, j \in DOMAIN returned :
        /\ returned[i][1] = "skip_current" /\ returned[i][2] = "web" /\ ~returned[i][3]
        /\ returned[j][1] = "skip_current" /\ returned[j][2] = "api" /\ returned[j][3]
        /\ processors["web"] = 0
        /\ skip_events["api"] = "set"

\* skip_current has returned true while task t of project p was in flight
SkippedInFlight(p, t) ==
    \E i \in DOMAIN returned : returned[i] = <<"skip_current", p, TRUE, t>>

\* C30: the skip flag is read by the task-processing path: once
\* skip_current(project) has returned true for the task in flight, that task
\* waits no longer: the wait for its pending approval does not go on, and it
\* starts no further wait for an approval or for the Executor.
C30_SkipEndsTheWaiting ==
    [][\A w \in Workers :
          (worker[w].pc = "running" /\ SkippedInFlight(ProjectOf(w), worker[w].task.id))
          => /\ proc[w].pc = "awaiting" => elapsed'[proc[w].key] = elapsed[proc[w].key]
             /\ proc'[w].pc \in {"awaiting", "executing"} => proc'[w].pc = proc[w].pc]_vars

C29_DeleteRemovesOne ==
    [][\A i \in NewCalls :
          returned'[i][1] = "delete_task"
          => LET id == returned'[i][2]
                 exists == \E r \in Records(tasks_file.tasks) : r.task_id = id
             IN /\ returned'[i][3] <=> id \in task_ids
                /\ returned'[i][3] <=> exists
                /\ IF id \in task_ids
                   THEN /\ task_ids' = task_ids \ {id}
                        /\ Records(tasks_file'.tasks) =
                              {r \in Records(tasks_file.tasks) : r.task_id # id}
                   ELSE /\ task_ids' = task_ids
                        /\ tasks_file' = tasks_file]_vars

\* a task was deleted beside another one, a second delete of its id returned
\* false, and the other task is still in the set and in the store
C29_Witness ==
    \E i, j \in DOMAIN returned :
        /\ i < j
        /\ returned[i][1] = "delete_task" /\ returned[i][3]
        /\ returned[j] = <<"delete_task", returned[i][2], FALSE, 0>>
        /\ Cardinality(task_ids) = 1
        /\ \E r \in Records(tasks_file.tasks) : r.task_id \in task_ids
        /\ Len(tasks_file.tasks) = 1

\* C31: a task goes Executing -> (AwaitingApproval <-> Executing)* -> Done,
\* Failed or Denied. An approval is asked for only right after an Executor
\* invocation that reported a permission need for a project whose policy is
\* ask-all; under another policy, or with no need reported, the task goes
\* from the invocation straight to its result, done or failed.
C31_TaskStateMachine ==
    [][\A w \in Workers :
          LET a == proc[w].pc
              b == proc'[w].pc
              asks == ApprovalMode[ProjectOf(w)] = "ask-all" /\ proc'[w].denial # None
          IN a # b =>
             /\ b = "executing" => a \in {"idle", "awaiting"}
             /\ a = "executing" => b = IF asks THEN "prompting" ELSE "reporting"
             /\ b = "prompting" => a = "executing" /\ asks
             /\ b = "awaiting" => a = "prompting"
             /\ a = "awaiting" => b \in {"executing", "denying"}
             /\ b = "denying" => a = "awaiting"
             /\ b = "reporting" => a = "executing"
             /\ a = "reporting"
                => b = "idle" /\ Last(log'[ProjectOf(w)])[1] \in {"done", "failed"}
             /\ a = "denying"
                => b = "idle" /\ Last(log'[ProjectOf(w)])[1] = "denied"]_vars

\* a task of the safe project whose Executor reported a permission need and
\* failed is at its result, and no approval was asked
C31_Witness ==
    \E w \in Workers :
        /\ ProjectOf(w) = "api" /\ proc[w].pc = "reporting"
        /\ proc[w].denial # None /\ ~proc[w].success
        /\ msg_id["c1"] = 0 /\ pending = {}

\* C32: the execute/approve/re-execute loop of a task ends after finitely many
\* Executor invocations when every invocation and every approval request
\* returns. The loop has no counter: it ends by itself only if its rounds
\* cannot repeat, so every re-execution after an approval has to start from an
\* allow-list larger than the one of the invocation before it.
C32_EachRoundProgresses ==
    [][\A w \in Workers :
          (proc[w].pc = "awaiting" /\ proc'[w].pc = "executing")
          => /\ proc[w].allowed_tools \subseteq proc'[w].allowed_tools
             /\ proc'[w].allowed_tools # proc[w].allowed_tools]_vars

\* a mutation of _tasks whose write to the store failed
SaveFailed ==
    /\ <<task_objs, task_ids>>' # <<task_objs, task_ids>>
    /\ tasks_file' \in {tasks_file, [tasks |-> <<>>, whole |-> FALSE]}
    /\ tasks_file' # [tasks |-> [i \in 1..Cardinality(task_ids') |->
                                    task_objs'[Ascending(task_ids')[i]]],
                       whole |-> TRUE]

\* C33: when the write of the store fails, _tasks keeps the mutation, the tick
\* loop is not stopped (the scheduler goes on to its next sleep), and the
\* other tasks due in the tick are still invoked: when the tick is over every
\* task that was due when it read the clock has been invoked in it.
C33_SaveFailureSparesTheTick ==
    [][/\ (SaveFailed /\ task_objs' # task_objs /\ Len(task_objs') = Len(task_objs))
          => /\ task_objs'[Head(sched.todo)].last_run = <<sched.now>>
             /\ sched'.pc \in {"sleeping", "notifying"}
       /\ sched'.pc = "sleeping"
          => tick_due' \subseteq {fired'[i].task_id : i \in FiredIn(fired', sched'.ticks)}]_vars

Deleted(i) == \E k \in DOMAIN returned : returned[k] = <<"delete_task", i, TRUE, 0>>

\* C35: once delete(id) has returned true the callback is never invoked for
\* that id again, also when the delete fell into a tick that was suspended in
\* the callback of another due task.
C35_DeletedNeverFires ==
    [][\A i \in DOMAIN task_objs :
          Deleted(i) => \A j \in DOMAIN fired' :
                           fired'[j].task_id = i => j \in DOMAIN fired]_vars

\* the callback is invoked for task i in this step
Fires(i) == Len(fired') > Len(fired) /\ fired'[Len(fired')].task_id = i

\* C36: every invocation advances the schedule: when the tick has invoked the
\* callback for a task and the callback has returned or raised, the task is
\* disabled or its next_run is later than the tick's now; so an invocation is
\* always for an occurrence later than the now of the task's invocation
\* before, and occurrences missed meanwhile are made up for by that one
\* invocation.
C36_InvocationAdvances ==
    [][\A i \in DOMAIN task_objs :
          /\ Processed(i)
             => /\ task_objs'[i].last_run = <<sched.now>>
                /\ ~task_objs'[i].enabled \/ task_objs'[i].next_run > sched.now
          /\ Fires(i)
             => /\ task_objs[i].enabled
                /\ task_objs[i].last_run # <<>>
                   => /\ task_objs[i].next_run > task_objs[i].last_run[1]
                      /\ sched'.now > task_objs[i].last_run[1]]_vars

\* a weekly task overdue for more than a week was invoked once by a tick
\* whose callback raised and again by a later tick, and a once task beside it
\* is disabled
C36_Witness ==
    \E j, k \in DOMAIN fired : \E o \in DOMAIN task_objs :
        /\ fired[j].task_id = fired[k].task_id
        /\ fired[j].tick < fired[k].tick
        /\ fired[j].how = "raised"
        /\ task_objs[fired[j].task_id].schedule_type = "weekly"
        /\ task_objs[o].schedule_type = "once" /\ ~task_objs[o].enabled

\* C37: every Executor invocation for a project is made with the handle most
\* recently stored for the project: the first invocation of a task and also
\* the re-execution after an approval, which uses the handle the invocation
\* before it returned.
C37_InvokedWithStoredHandle ==
    [][\A w \in Workers :
          (proc[w].pc # "executing" /\ proc'[w].pc = "executing")
          => proc'[w].session_id = sessions[ProjectOf(w)]]_vars

\* the projects for which a skip_current call of this step returned true
SkipHits == {returned'[i][2] : i \in {j \in NewCalls : returned'[j][1] = "skip_current"
                                                       /\ returned'[j][3]}}

\* C38: a /skip that names no project touches only the first project, in
\* configuration order, that has a task in flight: the skip flag of every
\* other project stays as it was, and with no task in flight anywhere no flag
\* changes.
C38_SkipTouchesOneProject ==
    [][\A p \in Projects :
          (skip_events'[p] # skip_events[p] /\ skip_events'[p] = "set")
          => /\ p \in SkipHits
             /\ RunningFor(p) # {}
             /\ \A i \in DOMAIN ProjectOrder :
                   ProjectOrder[i] = p
                   => \A j \in 1..(i - 1) : RunningFor(ProjectOrder[j]) = {}]_vars

====
